---- MODULE Spec2Model ----
(***************************************************************************)
(* TrafficLight.cpp: the single-slot MessageQueue<T> (send / receive over  *)
(* a mutex and a condition variable) and the TrafficLight that owns one,   *)
(* toggles _currentPhase in cycleThroughPhases and publishes each new      *)
(* phase with send, while waitForGreen loops on receive.                   *)
(*                                                                         *)
(* Every thread has a program counter; one action is one statement (or one *)
(* group of statements executed under the queue's mutex).  The drivers:    *)
(*   SpecMQ  - producer and consumer threads calling send and receive on a *)
(*             MessageQueue directly, any interleaving;                    *)
(*   SpecMQ1 - the same with a single sender; FairSpecMQ1 adds fairness;   *)
(*   Spec    - a TrafficLight: simulate() once, waiter threads calling     *)
(*             waitForGreen();                                             *)
(*   SpecOne - the same with a single waiter whose call is observed;       *)
(*             FairSpecOne adds fairness;                                  *)
(*   SpecTwo - the observed waiter and one more waiter;                    *)
(*   SpecPair - two waiters, neither observed; FairSpecPair adds fairness; *)
(*   SpecLight - the observed waiter and one reader of the phase;          *)
(*   SpecReaders - a TrafficLight: simulate() once, reader threads calling *)
(*             getCurrentPhase().                                          *)
(* Messages carry an identity next to their value, so that two sends of    *)
(* the same value stay apart.                                              *)
(***************************************************************************)
EXTENDS Integers, Sequences, FiniteSets

(* ----------------------------- bounds ---------------------------------- *)
NumProducers == 2
NumConsumers == 2
NumWaiters == 2
NumReaders == 2
\* number of send calls the producers of SpecMQ make in total
MaxSends == 2
\* granularity (ms) at which the sleeping cycle thread is rescheduled
Quantum == 2000
\* spacing (ms) of the cycle durations tried out of [DurationMin, DurationMax]
DurationStep == 2000
\* the count of green transitions since the observed call stops here
GreenCap == 2
\* the count of phase writes not yet published stops here
UnpublishedCap == 2
\* the time (ms) since the latest push of the cycle thread stops here
SinceCap == 20000

(* ------------------------- program constants --------------------------- *)
\* std::uniform_int_distribution<> distr(4000, 6000)
DurationMin == 4000
DurationMax == 6000

(* ----------------------------- threads --------------------------------- *)
CycleThread == <<"cycle", 1>>
Producers == {<<"producer", i>> : i \in 1..NumProducers}
Consumers == {<<"consumer", i>> : i \in 1..NumConsumers}
Waiters == {<<"waiter", i>> : i \in 1..NumWaiters}
Readers == {<<"reader", i>> : i \in 1..NumReaders}
Threads == {CycleThread} \cup Producers \cup Consumers \cup Waiters \cup Readers
NoThread == <<"none", 0>>

(* ----------------------------- values ---------------------------------- *)
red == "red"
green == "green"
TrafficLightPhase == {red, green}
\* a message: the value of type T plus the identity of the send that made it
Message(v, i) == [val |-> v, id |-> i]
NoMessage == Message("none", 0)

VARIABLES
    pc,                 \* position of every thread
    _queue,             \* MessageQueue::_queue, a sequence of messages
    _mutex,             \* MessageQueue::_mutex: the thread that holds it
    _condition,         \* MessageQueue::_condition: threads blocked in wait
    msg,                \* per thread: send's parameter / receive's local msg
    _currentPhase,      \* TrafficLight::_currentPhase
    storeBuf,           \* value of the store to _currentPhase in progress
    phaseRead,          \* per reader: what getCurrentPhase() last returned
    cycleDuration,      \* local of cycleThroughPhases
    clock,              \* system_clock::now() - lastUpdate, in ms
    sendCalls,          \* SpecMQ: number of send calls made so far
    pushCount,          \* SpecMQ: number of messages pushed so far
    lastPushed,         \* the message of the latest push_back
    discarded,          \* SpecMQ: messages that clear() dropped unreceived
    received,           \* SpecMQ: messages returned to consumers, in order
    callPhase,          \* SpecOne: _currentPhase when the waiter called
    greensSince,        \* SpecOne: stores of green from that call until the
                        \* waiter takes a green message, capped
    callSent,           \* the phase of the latest push when the waiter called
    callSlot,           \* what the queue held when the waiter called
    sent,               \* SpecMQ: the values pushed by the producers, in order
    sincePublish,       \* ms since the cycle thread's latest push_back,
                        \* capped
    unpublished         \* writes of _currentPhase minus pushes of the cycle
                        \* thread, capped

vars == <<pc, _queue, _mutex, _condition, msg, _currentPhase, storeBuf,
          phaseRead, cycleDuration, clock, sendCalls,
          pushCount, lastPushed, discarded, received, callPhase,
          greensSince, callSent, callSlot, sent, sincePublish, unpublished>>

queueVars == <<_queue, _mutex, _condition, msg, lastPushed, pushCount,
               discarded, sent>>
lightVars == <<_currentPhase, storeBuf, phaseRead, cycleDuration, clock,
               greensSince>>
driverVars == <<sendCalls, received, callPhase, callSent, callSlot>>
publishVars == <<sincePublish, unpublished>>

(* ------------------------ std::deque operations ------------------------ *)
empty(q) == Len(q) = 0
back(q) == q[Len(q)]
\* the element is read but never removed
pop_back_keep(q) == q
\* pop_back() of an empty deque is undefined; the deque stays empty
pop_back(q) == IF Len(q) = 0 THEN q ELSE SubSeq(q, 1, Len(q) - 1)
\* clear() left out
clear_keep(q) == q
clear(q) == <<>>
push_back(q, m) == Append(q, m)

(* identities in use: in the queue, held by a thread, or the latest push *)
LiveIds ==
    {_queue[i].id : i \in 1..Len(_queue)} \cup {msg[t].id : t \in Threads}
        \cup {lastPushed.id}
\* the identity given to a message when it is pushed: producers number their
\* messages in push order, the cycle thread's message takes the smallest
\* identity that nothing refers to any more
NewId(t) ==
    IF t \in Producers THEN pushCount + 1
    ELSE CHOOSE i \in 1..(Cardinality(LiveIds) + 1) :
            /\ i \notin LiveIds
            /\ \A j \in 1..(i - 1) : j \in LiveIds

Goto(t, l) == pc' = [pc EXCEPT ![t] = l]
Min(a, b) == IF a <= b THEN a ELSE b

(* --------------------------- Init -------------------------------------- *)
\* a constructor that starts the light green
InitialPhase_green == green
\* line 54: _currentPhase = TrafficLightPhase::red
InitialPhase == red

Init ==
    /\ pc = [t \in Threads |-> "idle"]
    /\ _queue = <<>>
    /\ _mutex = NoThread
    /\ _condition = {}
    /\ msg = [t \in Threads |-> NoMessage]
    /\ _currentPhase = InitialPhase
    /\ storeBuf = InitialPhase
    /\ phaseRead = [r \in Readers |-> "none"]
    /\ cycleDuration = 0
    /\ clock = 0
    /\ sendCalls = 0
    /\ pushCount = 0
    /\ lastPushed = NoMessage
    /\ discarded = {}
    /\ received = <<>>
    /\ callPhase = "none"
    /\ greensSince = 0
    /\ callSent = "none"
    /\ callSlot = "none"
    /\ sent = <<>>
    /\ sincePublish = 0
    /\ unpublished = 0

(* ------------------- MessageQueue<T>::receive -------------------------- *)
\* a wait that goes on after any wake, whatever the queue holds
waitPredicate_always(q) == TRUE
\* the wait predicate  [this]{ return !_queue.empty(); }
waitPredicate(q) == ~empty(q)

\* line 16: std::unique_lock<std::mutex> uLock(_mutex)
receiveLock(t) ==
    /\ pc[t] = "receive"
    /\ _mutex = NoThread
    /\ _mutex' = t
    /\ Goto(t, "receive_wait")
    /\ UNCHANGED <<_queue, _condition, msg, lastPushed, pushCount, discarded, sent>>
    /\ UNCHANGED <<lightVars, driverVars>>
    /\ UNCHANGED publishVars

\* the message lines 22-23 leave in msg: T msg = std::move(_queue.back()).
\* back() of an empty deque is undefined: any value of T may come out, and it
\* is no message that anyone sent
takenMessages(q) ==
    IF empty(q) THEN {Message(v, 0) : v \in TrafficLightPhase} ELSE {back(q)}

\* line 19: _condition.wait(uLock, pred): with the lock held, test the
\* predicate; when it fails release the lock and block; when it holds go on
\* to lines 22-23: T msg = std::move(_queue.back()); _queue.pop_back();
receiveWait(t) ==
    /\ pc[t] = "receive_wait"
    /\ _mutex = t
    /\ IF waitPredicate(_queue)
         THEN /\ \E m \in takenMessages(_queue) : msg' = [msg EXCEPT ![t] = m]
              /\ _queue' = pop_back(_queue)
              /\ Goto(t, "receive_return")
              /\ UNCHANGED <<_mutex, _condition>>
         ELSE /\ Goto(t, "receive_blocked")
              /\ _mutex' = NoThread
              /\ _condition' = _condition \cup {t}
              /\ UNCHANGED <<_queue, msg>>
    /\ UNCHANGED <<lastPushed, pushCount, discarded, sent>>
    /\ UNCHANGED <<lightVars, driverVars>>
    /\ UNCHANGED publishVars

\* a thread blocked in wait may wake with no notification (spurious wakeup)
receiveSpuriousWake(t) ==
    /\ pc[t] = "receive_blocked"
    /\ t \in _condition
    /\ _condition' = _condition \ {t}
    /\ Goto(t, "receive_woken")
    /\ UNCHANGED <<_queue, _mutex, msg, lastPushed, pushCount, discarded, sent>>
    /\ UNCHANGED <<lightVars, driverVars>>
    /\ UNCHANGED publishVars

\* a woken thread re-acquires the lock inside wait, then tests the predicate
receiveRelock(t) ==
    /\ pc[t] = "receive_woken"
    /\ _mutex = NoThread
    /\ _mutex' = t
    /\ Goto(t, "receive_wait")
    /\ UNCHANGED <<_queue, _condition, msg, lastPushed, pushCount, discarded, sent>>
    /\ UNCHANGED <<lightVars, driverVars>>
    /\ UNCHANGED publishVars

\* line 25: return msg; uLock's destructor releases the mutex
receiveReturn(t) ==
    /\ pc[t] = "receive_return"
    /\ _mutex = t
    /\ _mutex' = NoThread
    /\ Goto(t, "received")
    /\ UNCHANGED <<_queue, _condition, msg, lastPushed, pushCount, discarded, sent>>
    /\ UNCHANGED <<lightVars, driverVars>>
    /\ UNCHANGED publishVars

(* --------------------- MessageQueue<T>::send --------------------------- *)
\* the clock runs from the moment cycleThroughPhases has set lastUpdate
AdvanceClock ==
    IF pc[CycleThread] = "idle"
      THEN UNCHANGED <<clock, sincePublish>>
      ELSE \E d \in {Quantum, 2 * Quantum} :
              /\ clock' = clock + d
              /\ sincePublish' = Min(sincePublish + d, SinceCap)

\* line 35: std::this_thread::sleep_for(std::chrono::milliseconds(1))
sendSleep(t) ==
    /\ pc[t] = "send"
    /\ Goto(t, "send_lock")
    /\ AdvanceClock
    /\ UNCHANGED queueVars
    /\ UNCHANGED <<_currentPhase, storeBuf, phaseRead, greensSince, cycleDuration, driverVars>>
    /\ UNCHANGED unpublished

\* a send that waits until a consumer has emptied the queue
sendLock_whenEmpty(t) ==
    /\ pc[t] = "send_lock"
    /\ _mutex = NoThread
    /\ empty(_queue)
    /\ _mutex' = t
    /\ Goto(t, "send_push")
    /\ UNCHANGED <<_queue, _condition, msg, lastPushed, pushCount, discarded, sent>>
    /\ UNCHANGED <<lightVars, driverVars>>
    /\ UNCHANGED publishVars
\* a send that goes on without waiting for the mutex
sendLock_unlocked(t) ==
    /\ pc[t] = "send_lock"
    /\ _mutex' = t
    /\ Goto(t, "send_push")
    /\ UNCHANGED <<_queue, _condition, msg, lastPushed, pushCount, discarded, sent>>
    /\ UNCHANGED <<lightVars, driverVars, publishVars>>
\* line 38: std::lock_guard<std::mutex> uLock(_mutex)
sendLock(t) ==
    /\ pc[t] = "send_lock"
    /\ _mutex = NoThread
    /\ _mutex' = t
    /\ Goto(t, "send_push")
    /\ UNCHANGED <<_queue, _condition, msg, lastPushed, pushCount, discarded, sent>>
    /\ UNCHANGED <<lightVars, driverVars>>
    /\ UNCHANGED publishVars

\* lines 41-44: _queue.clear(); _queue.push_back(std::move(msg));
sendPush(t) ==
    /\ pc[t] = "send_push"
    /\ _mutex = t
    /\ LET m == Message(msg[t].val, NewId(t))
       IN  /\ _queue' = push_back(clear(_queue), m)
           /\ msg' = [msg EXCEPT ![t] = m]
           /\ lastPushed' = m
    /\ pushCount' = IF t \in Producers THEN pushCount + 1 ELSE pushCount
    /\ discarded' = IF t \in Producers
                       THEN discarded \cup {_queue[i] : i \in 1..Len(_queue)}
                       ELSE discarded
    /\ sent' = IF t \in Producers THEN Append(sent, msg[t].val) ELSE sent
    /\ sincePublish' = IF t = CycleThread THEN 0 ELSE sincePublish
    /\ unpublished' = IF t = CycleThread THEN unpublished - 1 ELSE unpublished
    /\ Goto(t, "send_notify")
    /\ UNCHANGED <<_mutex, _condition>>
    /\ UNCHANGED <<lightVars, driverVars>>

\* a notification that wakes nobody
notifyOne_lost(ws) == {{}}
\* _condition.notify_one(): unblocks one of the threads blocked in wait, if
\* there is one; ws is the set of threads it may pick
notifyOne(ws) == IF ws = {} THEN {{}} ELSE {{w} : w \in ws}

\* line 47: _condition.notify_one()
sendNotify(t) ==
    /\ pc[t] = "send_notify"
    /\ _mutex = t
    /\ \E woken \in notifyOne(_condition) :
          /\ _condition' = _condition \ woken
          /\ pc' = [u \in Threads |->
                      IF u = t THEN "send_return"
                      ELSE IF u \in woken THEN "receive_woken" ELSE pc[u]]
    /\ UNCHANGED <<_queue, _mutex, msg, lastPushed, pushCount, discarded, sent>>
    /\ UNCHANGED <<lightVars, driverVars>>
    /\ UNCHANGED publishVars

\* line 48: uLock's destructor releases the mutex, send returns
sendReturn(t) ==
    /\ pc[t] = "send_return"
    /\ _mutex = t
    /\ _mutex' = NoThread
    /\ Goto(t, "sent")
    /\ UNCHANGED <<_queue, _condition, msg, lastPushed, pushCount, discarded, sent>>
    /\ UNCHANGED <<lightVars, driverVars>>
    /\ UNCHANGED publishVars

\* one step of a thread inside receive
receiveStep(t) ==
    \/ receiveLock(t)
    \/ receiveWait(t)
    \/ receiveSpuriousWake(t)
    \/ receiveRelock(t)
    \/ receiveReturn(t)

\* one step of a thread inside send
sendStep(t) ==
    \/ sendSleep(t)
    \/ sendLock(t)
    \/ sendPush(t)
    \/ sendNotify(t)
    \/ sendReturn(t)

\* one step of a thread inside send or receive
queueStep(t) == receiveStep(t) \/ sendStep(t)

(* ---------------- driver of SpecMQ: producers and consumers ------------ *)
\* a producer calls send(v)
producerSend(t) ==
    /\ pc[t] = "idle"
    /\ sendCalls < MaxSends
    /\ sendCalls' = sendCalls + 1
    /\ \E v \in TrafficLightPhase : msg' = [msg EXCEPT ![t] = Message(v, 0)]
    /\ Goto(t, "send")
    /\ UNCHANGED <<_queue, _mutex, _condition, lastPushed, pushCount, discarded, sent>>
    /\ UNCHANGED <<lightVars, received, callPhase, callSent, callSlot>>
    /\ UNCHANGED publishVars

\* its send has returned
producerSent(t) ==
    /\ pc[t] = "sent"
    /\ Goto(t, "idle")
    /\ UNCHANGED <<queueVars, lightVars, driverVars>>
    /\ UNCHANGED publishVars

\* a consumer calls receive()
consumerReceive(t) ==
    /\ pc[t] = "idle"
    /\ Goto(t, "receive")
    /\ UNCHANGED <<queueVars, lightVars, driverVars>>
    /\ UNCHANGED publishVars

\* its receive has returned msg: the consumer records it
consumerReceived(t) ==
    /\ pc[t] = "received"
    /\ received' = Append(received, msg[t])
    /\ msg' = [msg EXCEPT ![t] = NoMessage]
    /\ Goto(t, "idle")
    /\ UNCHANGED <<_queue, _mutex, _condition, lastPushed, pushCount, discarded, sent>>
    /\ UNCHANGED <<lightVars, sendCalls, callPhase, callSent, callSlot>>
    /\ UNCHANGED publishVars

NextMQ ==
    \/ \E t \in Producers : producerSend(t)
    \/ \E t \in Producers : producerSent(t)
    \/ \E t \in Consumers : consumerReceive(t)
    \/ \E t \in Consumers : consumerReceived(t)
    \/ \E t \in Producers \cup Consumers : queueStep(t)

SpecMQ == Init /\ [][NextMQ]_vars

\* the steps of send and receive a scheduled thread takes by itself: all of
\* them but the spurious wakeup, which nothing promises
runStep(t) ==
    \/ receiveWait(t)
    \/ receiveReturn(t)
    \/ sendSleep(t)
    \/ sendPush(t)
    \/ sendNotify(t)
    \/ sendReturn(t)
\* acquiring the mutex: lines 16, 19 (re-acquisition inside wait) and 38
lockStep(t) == receiveLock(t) \/ receiveRelock(t) \/ sendLock(t)

\* the only producer of SpecMQ1
Sender == <<"producer", 1>>

\* one sender and all the consumers on a MessageQueue
NextMQ1 ==
    \/ producerSend(Sender)
    \/ producerSent(Sender)
    \/ \E t \in Consumers : consumerReceive(t)
    \/ \E t \in Consumers : consumerReceived(t)
    \/ sendStep(Sender)
    \/ \E t \in Consumers : receiveStep(t)

SpecMQ1 == Init /\ [][NextMQ1]_vars

\* fair scheduling: a thread that can run does run, and a thread that finds
\* the mutex free again and again gets it
FairSpecMQ1 ==
    /\ SpecMQ1
    /\ \A t \in {Sender} \cup Consumers :
          WF_vars(runStep(t)) /\ SF_vars(lockStep(t))
    /\ WF_vars(producerSent(Sender))
    /\ \A t \in Consumers : WF_vars(consumerReceived(t))

(* ============================ TrafficLight ============================= *)
\* a chain that stores green on both branches
Toggle_green(p) == green
\* lines 111-118: the phase the if / else-if chain stores for phase p
Toggle(p) == IF p = red THEN green ELSE IF p = green THEN red ELSE p

\* the values distr(eng) is tried with
CycleDurations ==
    {d \in DurationMin..DurationMax : (d - DurationMin) % DurationStep = 0}
        \cup {DurationMax}

\* line 79: threads.emplace_back(std::thread(&TrafficLight::cycleThroughPhases, this))
simulate ==
    /\ pc[CycleThread] = "idle"
    /\ Goto(CycleThread, "cycle_init")
    /\ UNCHANGED <<queueVars, lightVars, driverVars>>
    /\ UNCHANGED publishVars

\* lines 91-98: double cycleDuration = distr(eng); lastUpdate = now()
cycleInit ==
    /\ pc[CycleThread] = "cycle_init"
    /\ \E d \in CycleDurations : cycleDuration' = d
    /\ clock' = 0
    /\ Goto(CycleThread, "cycle_sleep")
    /\ UNCHANGED <<queueVars, driverVars>>
    /\ UNCHANGED <<_currentPhase, storeBuf, phaseRead, greensSince>>
    /\ UNCHANGED publishVars

\* line 104: std::this_thread::sleep_for(std::chrono::milliseconds(1))
cycleSleep ==
    /\ pc[CycleThread] = "cycle_sleep"
    /\ AdvanceClock
    /\ Goto(CycleThread, "cycle_measure")
    /\ UNCHANGED <<queueVars, driverVars>>
    /\ UNCHANGED <<_currentPhase, storeBuf, phaseRead, greensSince, cycleDuration>>
    /\ UNCHANGED unpublished

\* a test against the least duration instead of the one chosen
cycleMeasure_early ==
    /\ pc[CycleThread] = "cycle_measure"
    /\ IF clock >= DurationMin
         THEN Goto(CycleThread, "cycle_toggle")
         ELSE Goto(CycleThread, "cycle_sleep")
    /\ UNCHANGED <<queueVars, driverVars, lightVars, publishVars>>
\* lines 107-108: timeSinceLastUpdate = now() - lastUpdate, which is clock;
\* if (timeSinceLastUpdate >= cycleDuration)
cycleMeasure ==
    /\ pc[CycleThread] = "cycle_measure"
    /\ IF clock >= cycleDuration
         THEN Goto(CycleThread, "cycle_toggle")
         ELSE Goto(CycleThread, "cycle_sleep")
    /\ UNCHANGED <<queueVars, driverVars>>
    /\ UNCHANGED <<_currentPhase, storeBuf, phaseRead, greensSince, cycleDuration, clock>>
    /\ UNCHANGED publishVars

\* lines 111-118: the branch is chosen and the store to _currentPhase begins
cycleToggle ==
    /\ pc[CycleThread] = "cycle_toggle"
    /\ storeBuf' = Toggle(_currentPhase)
    /\ Goto(CycleThread, "cycle_store")
    /\ UNCHANGED <<queueVars, driverVars>>
    /\ UNCHANGED <<_currentPhase, phaseRead, greensSince, cycleDuration, clock>>
    /\ UNCHANGED publishVars

\* lines 113 / 117: the store to _currentPhase completes
cycleStore ==
    /\ pc[CycleThread] = "cycle_store"
    /\ _currentPhase' = storeBuf
    /\ Goto(CycleThread, "cycle_send")
    /\ UNCHANGED <<queueVars, driverVars>>
    /\ greensSince' = IF /\ callPhase /= "none"
                            /\ msg[<<"waiter", 1>>].val /= green
                            /\ storeBuf = green
                         THEN Min(greensSince + 1, GreenCap)
                         ELSE greensSince
    /\ unpublished' = Min(unpublished + 1, UnpublishedCap)
    /\ UNCHANGED <<storeBuf, phaseRead, cycleDuration, clock, sincePublish>>

\* a transition that is not published: send is left out
cycleSend_skip ==
    /\ pc[CycleThread] = "cycle_send"
    /\ Goto(CycleThread, "sent")
    /\ UNCHANGED <<queueVars, lightVars, driverVars>>
    /\ UNCHANGED publishVars
\* line 119: _messageQueue.send(std::move(_currentPhase))
cycleSend ==
    /\ pc[CycleThread] = "cycle_send"
    /\ msg' = [msg EXCEPT ![CycleThread] = Message(_currentPhase, 0)]
    /\ Goto(CycleThread, "send")
    /\ UNCHANGED <<_queue, _mutex, _condition, lastPushed, pushCount, discarded, sent>>
    /\ UNCHANGED <<lightVars, driverVars>>
    /\ UNCHANGED publishVars

\* line 122: lastUpdate = std::chrono::system_clock::now()
cycleReset ==
    /\ pc[CycleThread] = "sent"
    /\ clock' = 0
    /\ Goto(CycleThread, "cycle_sleep")
    /\ UNCHANGED <<queueVars, driverVars>>
    /\ UNCHANGED <<_currentPhase, storeBuf, phaseRead, greensSince, cycleDuration>>
    /\ UNCHANGED publishVars

cycleThroughPhases ==
    \/ cycleInit
    \/ cycleSleep
    \/ cycleMeasure
    \/ cycleToggle
    \/ cycleStore
    \/ cycleSend
    \/ cycleReset

\* a thread calls waitForGreen(): lines 63-66 enter the loop and call receive
waitForGreenCall(t) ==
    /\ pc[t] = "idle"
    /\ Goto(t, "receive")
    /\ UNCHANGED <<queueVars, lightVars, driverVars>>
    /\ UNCHANGED publishVars

\* a loop that returns on any message
waitForGreenTest_any(t) ==
    /\ pc[t] = "received"
    /\ Goto(t, "returned")
    /\ UNCHANGED <<queueVars, lightVars, driverVars>>
    /\ UNCHANGED publishVars
\* a loop that copies every message it receives into _currentPhase
waitForGreenTest_store(t) ==
    /\ pc[t] = "received"
    /\ _currentPhase' = msg[t].val
    /\ IF msg[t].val = green
         THEN Goto(t, "returned")
         ELSE Goto(t, "receive")
    /\ UNCHANGED <<queueVars, driverVars, publishVars>>
    /\ UNCHANGED <<storeBuf, phaseRead, cycleDuration, clock, greensSince>>
\* line 66: if (_messageQueue.receive() == TrafficLightPhase::green) return;
waitForGreenTest(t) ==
    /\ pc[t] = "received"
    /\ IF msg[t].val = green
         THEN Goto(t, "returned")
         ELSE Goto(t, "receive")
    /\ UNCHANGED <<queueVars, lightVars, driverVars>>
    /\ UNCHANGED publishVars

\* what a load of _currentPhase can yield: the stored value, or the value of
\* a store that is in progress at the same time (the accesses are unordered)
LoadCurrentPhase ==
    {_currentPhase}
        \cup (IF pc[CycleThread] = "cycle_store" THEN {storeBuf} ELSE {})

\* a thread calls getCurrentPhase()
getCurrentPhaseCall(t) ==
    /\ pc[t] = "idle"
    /\ Goto(t, "getCurrentPhase")
    /\ UNCHANGED <<queueVars, lightVars, driverVars>>
    /\ UNCHANGED publishVars

\* line 72: return _currentPhase
getCurrentPhase(t) ==
    /\ pc[t] = "getCurrentPhase"
    /\ \E v \in LoadCurrentPhase : phaseRead' = [phaseRead EXCEPT ![t] = v]
    /\ Goto(t, "idle")
    /\ UNCHANGED <<queueVars, driverVars>>
    /\ UNCHANGED <<_currentPhase, storeBuf, cycleDuration, clock, greensSince>>
    /\ UNCHANGED publishVars

\* a TrafficLight with its cycle thread and waiters
Next ==
    \/ simulate
    \/ cycleThroughPhases
    \/ \E t \in Waiters : waitForGreenCall(t)
    \/ \E t \in Waiters : waitForGreenTest(t)
    \/ \E t \in {CycleThread} \cup Waiters : queueStep(t)

Spec == Init /\ [][Next]_vars

\* the only waiter of SpecOne
Observed == <<"waiter", 1>>

\* the observed waiter calls waitForGreen(); the phase at the call is noted
waitForGreenObserved ==
    /\ pc[Observed] = "idle"
    /\ callPhase' = _currentPhase
    /\ callSent' = lastPushed.val
    /\ callSlot' = IF empty(_queue) THEN "empty" ELSE back(_queue).val
    /\ Goto(Observed, "receive")
    /\ UNCHANGED <<queueVars, lightVars, sendCalls, received>>
    /\ UNCHANGED publishVars

\* a TrafficLight with its cycle thread and a single waiter
NextOne ==
    \/ simulate
    \/ cycleThroughPhases
    \/ waitForGreenObserved
    \/ waitForGreenTest(Observed)
    \/ \E t \in {CycleThread, Observed} : queueStep(t)

SpecOne == Init /\ [][NextOne]_vars

\* fair scheduling of the cycle thread and the waiter: a thread that can run
\* does run, and a thread that finds the mutex free again and again gets it
FairSpecOne ==
    /\ SpecOne
    /\ WF_vars(cycleThroughPhases)
    /\ WF_vars(waitForGreenTest(Observed))
    /\ \A t \in {CycleThread, Observed} :
          WF_vars(runStep(t)) /\ SF_vars(lockStep(t))

\* the second waiter of SpecTwo
Other == <<"waiter", 2>>

\* a TrafficLight with its cycle thread, the observed waiter and one more
\* waiter
NextTwo ==
    \/ simulate
    \/ cycleThroughPhases
    \/ waitForGreenObserved
    \/ waitForGreenCall(Other)
    \/ \E t \in {Observed, Other} : waitForGreenTest(t)
    \/ \E t \in {CycleThread, Observed, Other} : queueStep(t)

SpecTwo == Init /\ [][NextTwo]_vars

\* the two waiters of SpecPair
Pair == {Observed, Other}

\* a TrafficLight with its cycle thread and two waiters, each calling
\* waitForGreen() once
NextPair ==
    \/ simulate
    \/ cycleThroughPhases
    \/ \E t \in Pair : waitForGreenCall(t)
    \/ \E t \in Pair : waitForGreenTest(t)
    \/ \E t \in {CycleThread} \cup Pair : queueStep(t)

SpecPair == Init /\ [][NextPair]_vars

\* fair scheduling of the cycle thread and the two waiters: a thread that
\* can run does run, and a thread that finds the mutex free again and again
\* gets it
FairSpecPair ==
    /\ SpecPair
    /\ WF_vars(cycleThroughPhases)
    /\ \A t \in Pair : WF_vars(waitForGreenTest(t))
    /\ \A t \in {CycleThread} \cup Pair :
          WF_vars(runStep(t)) /\ SF_vars(lockStep(t))

\* the only reader of SpecLight
Reader == <<"reader", 1>>

\* a TrafficLight with all its methods in use: simulate() once, the observed
\* waiter in waitForGreen(), a reader calling getCurrentPhase()
NextLight ==
    \/ simulate
    \/ cycleThroughPhases
    \/ waitForGreenObserved
    \/ waitForGreenTest(Observed)
    \/ getCurrentPhaseCall(Reader)
    \/ getCurrentPhase(Reader)
    \/ \E t \in {CycleThread, Observed} : queueStep(t)

SpecLight == Init /\ [][NextLight]_vars

\* a TrafficLight with its cycle thread and readers of the phase
NextReaders ==
    \/ simulate
    \/ cycleThroughPhases
    \/ \E t \in Readers : getCurrentPhaseCall(t)
    \/ \E t \in Readers : getCurrentPhase(t)
    \/ sendStep(CycleThread)

SpecReaders == Init /\ [][NextReaders]_vars

(* ============================== claims ================================= *)
\* messages a consumer holds: taken from the queue, not yet recorded
InHand == {t \in Consumers : pc[t] \in {"receive_return", "received"}}
\* identities of the messages returned so far, in hand or recorded
ReturnedIds ==
    {msg[t].id : t \in InHand} \cup {received[i].id : i \in 1..Len(received)}

\* C1: under any interleaving of send and receive calls of the producers and
\* consumers, the queue never holds more than one message.
C1_SlotHoldsAtMostOne == Len(_queue) <= 1

\* a second send has overwritten a message nobody received
C1_Witness ==
    /\ Len(_queue) = 1
    /\ pushCount >= 2
    /\ discarded /= {}

\* C2: latest wins.  Right after a send has pushed, the queue holds exactly
\* the message sent; a receive takes the message of the latest push; a
\* message dropped by a later send is never returned; and no message is
\* returned twice.
C2_LatestWins ==
    /\ \A t \in Producers :
          pc[t] \in {"send_notify", "send_return"} => _queue = <<msg[t]>>
    /\ \A t \in Consumers : pc[t] = "receive_return" => msg[t] = lastPushed
    /\ \A m \in discarded : m.id \notin ReturnedIds
    /\ Cardinality(ReturnedIds) = Cardinality(InHand) + Len(received)

\* A then B were sent with no receive in between, and B has been returned
C2_Witness ==
    /\ pushCount = 2
    /\ \E m \in discarded : m.id = 1
    /\ Len(received) = 1
    /\ received[1].id = 2

\* C3: a receive leaves with a message only if that message had been sent
\* and was in the queue when the receiver held the lock, and the queue is
\* empty right after the removal, while the receiver still holds the lock.
C3_ReceiveNeverReturnsEmpty ==
    \A t \in Consumers :
        /\ pc[t] \in {"receive_return", "received"} => msg[t].id \in 1..pushCount
        /\ pc[t] = "receive_return" => (_mutex = t /\ _queue = <<>>)

\* one receiver was woken, another took the message first: the woken one
\* finds the queue empty
C3_Witness ==
    \E t, u \in Consumers :
        /\ t /= u
        /\ pc[t] = "receive_woken"
        /\ pc[u] = "receive_return"
        /\ _queue = <<>>

\* a receiver is on its way to the queue: woken and about to re-acquire the
\* lock, or holding the lock in front of the predicate; or a sender that has
\* pushed is about to notify
WakePending ==
    \/ \E t \in Consumers : pc[t] \in {"receive_woken", "receive_wait"}
    \/ \E t \in Producers : pc[t] = "send_notify"
\* some consumer is inside receive and has not taken a message yet
ReceiverWaiting ==
    \E t \in Consumers :
        pc[t] \in {"receive", "receive_wait", "receive_blocked", "receive_woken"}

\* C4: no missed wake-up.  Never is the queue non-empty with a receiver
\* blocked on the condition and no wake pending; and under fair scheduling,
\* whenever the queue holds a message while a receiver is inside receive,
\* one more receive returns.
C4_NoMissedWakeup ==
    /\ [](_queue /= <<>> /\ _condition /= {} => WakePending)
    /\ \A n \in 0..MaxSends :
          (_queue /= <<>> /\ ReceiverWaiting /\ Len(received) = n)
              ~> (Len(received) > n)

\* both consumers are blocked on the condition when a send has just pushed
C4_Witness ==
    /\ _condition = Consumers
    /\ _queue /= <<>>
    /\ \E t \in Producers : pc[t] = "send_notify"

\* C5: under fair scheduling every send call returns, with no receive ever
\* called, with the queue already full, and with receivers blocked.
C5_SendTerminates == (pc[Sender] = "send") ~> (pc[Sender] = "sent")

\* a send has returned onto a queue that already held a message, while no
\* consumer has called receive at all
C5_Witness ==
    /\ \E t \in Producers : pc[t] = "sent"
    /\ pushCount = 2
    /\ \A t \in Consumers : pc[t] = "idle"
    /\ received = <<>>

\* waiters that hold the message their latest receive took
Holding == {t \in Waiters : pc[t] \in {"receive_return", "received", "returned"}}

\* C6: single winner.  No two threads hold the same message: a message put
\* in the queue by one send is taken by at most one receive, so one green
\* message makes at most one waiter return from waitForGreen.
C6_SingleWinner ==
    \A t, u \in Holding : t /= u => msg[t].id /= msg[u].id

\* one waiter has returned on the latest message, a green one; the other
\* waiter is still blocked in receive
C6_Witness ==
    \E t, u \in Waiters :
        /\ pc[t] = "returned"
        /\ msg[t] = lastPushed
        /\ pc[u] = "receive_blocked"
        /\ _queue = <<>>

\* the other phase
C7_Other(v) == IF v = "red" THEN "green" ELSE "red"
\* the phase published last, red standing for the initial phase
C7_LastPublished == IF lastPushed = NoMessage THEN "red" ELSE lastPushed.val

\* C7: phase alternation.  Each message the cycle thread pushes carries the
\* phase other than the one pushed before it, the first one green; and
\* whenever the cycle thread is between two transitions, the phase pushed
\* last is the current phase, so every transition has been published.
C7_PhaseAlternation ==
    /\ [][lastPushed' /= lastPushed
            => lastPushed'.val = C7_Other(C7_LastPublished)]_vars
    /\ [](pc[CycleThread] \in {"cycle_sleep", "cycle_measure", "cycle_toggle"}
            => _currentPhase = C7_LastPublished)

\* green and then red have been published and the third message, green, is
\* about to be pushed
C7_Witness ==
    /\ lastPushed.val = "red"
    /\ _currentPhase = "green"
    /\ pc[CycleThread] = "send_push"

\* C8: getCurrentPhase() returns red or green, whatever store of the cycle
\* thread it overlaps, and red as long as simulate() has not been called.
C8_PhaseReadValid ==
    \A r \in Readers :
        /\ phaseRead[r] \in {"none", "red", "green"}
        /\ pc[CycleThread] = "idle" => phaseRead[r] \in {"none", "red"}

\* a read overlapped the store of green and returned green while
\* _currentPhase still held red
C8_Witness ==
    \E r \in Readers :
        /\ pc[CycleThread] = "cycle_store"
        /\ _currentPhase = "red"
        /\ phaseRead[r] = "green"
        /\ pc[r] = "idle"

\* C9: waitForGreen returns only from line 66 with a green message from its
\* own receive; there a green message makes it return and any other message
\* makes it call receive again.
C9_WaitForGreenReturnsOnGreen ==
    /\ [](\A t \in Waiters : pc[t] = "returned" => msg[t].val = "green")
    /\ [][\A t \in Waiters :
            /\ (pc[t] /= "returned" /\ pc'[t] = "returned") => pc[t] = "received"
            /\ (pc[t] = "received" /\ pc'[t] /= "received") =>
                  pc'[t] = (IF msg[t].val = "green" THEN "returned" ELSE "receive")
         ]_vars

\* one waiter has returned on green while another has discarded a red
\* message and is calling receive again
C9_Witness ==
    \E t, u \in Waiters :
        /\ pc[t] = "returned"
        /\ pc[u] = "receive"
        /\ msg[u].val = "red"

\* the observed waiter called waitForGreen() while the phase was red, the
\* cycle thread runs
C10_CalledOnRed == callPhase = "red" /\ pc[CycleThread] /= "idle"
C10_Returned == pc[Observed] = "returned"
\* the cycle thread is about to clear a green message out of the queue while
\* the observed waiter is inside waitForGreen and runnable, not blocked on
\* the condition variable: the waiter was too slow to take the message
C10_GreenOverwritten ==
    /\ pc[CycleThread] = "send_push"
    /\ _queue /= <<>>
    /\ _queue[Len(_queue)].val = "green"
    /\ callPhase /= "none"
    /\ pc[Observed] \notin {"idle", "receive_blocked", "returned"}

C11_CalledOnSentGreen == callPhase = "green" /\ callSent = "green"

C12_UnblocksAtNextGreen ==
    callPhase = "red" /\ pc[Observed] = "returned" => greensSince >= 1

\* C13: order preservation with a single producer.  Every receive that
\* completes returns a message the producer pushed, carrying the value of
\* that push, and pushed later than every message returned by a receive that
\* completed before it: the values returned, in the order the receives
\* complete, are a subsequence of the values sent, nothing reordered and
\* nothing returned twice.
C13_OrderPreserved ==
    [][\A t \in Consumers :
          (pc[t] = "receive_return" /\ pc'[t] = "received") =>
              /\ msg[t].id \in 1..Len(sent)
              /\ msg[t].val = sent[msg[t].id]
              /\ \A u \in Consumers \ {t} :
                    pc[u] = "received" => msg[u].id < msg[t].id
              /\ \A i \in 1..Len(received) : received[i].id < msg[t].id
      ]_vars

\* green then red were sent; the receive that returned green has been
\* recorded and a receive of the other consumer has completed with red
C13_Witness ==
    /\ sent = <<"green", "red">>
    /\ Len(received) = 1
    /\ received[1] = Message("green", 1)
    /\ \E t \in Consumers : pc[t] = "received" /\ msg[t] = Message("red", 2)

\* C14: the reads of _currentPhase in getCurrentPhase() are ordered with the
\* cycle thread's writes: never is a reader in front of its load at line 72
\* while the cycle thread is in front of its store at line 113 / 117.
\* (Neither place takes _mutex or any other lock, and _currentPhase is a
\* plain enum object: nothing but the exclusion stated here could order the
\* two accesses.)
C14_ReadsSynchronized ==
    \A r \in Readers :
        ~(pc[r] = "getCurrentPhase" /\ pc[CycleThread] = "cycle_store")

\* C15: _currentPhase is written only by the cycle routine.  Every step that
\* changes it is the cycle thread's store at line 113 / 117 and moves no
\* other thread: getCurrentPhase(), waitForGreen(), send() and receive()
\* leave it as it is, and the one cycle thread is its only writer.
C15_PhaseWrittenByCycleOnly ==
    [][_currentPhase' /= _currentPhase =>
          /\ pc[CycleThread] = "cycle_store"
          /\ pc'[CycleThread] = "cycle_send"
          /\ _currentPhase' = storeBuf
          /\ \A t \in Threads \ {CycleThread} : pc'[t] = pc[t]
      ]_vars

\* the cycle thread has written green and then red, while the waiter has
\* received a message and the reader has read green
C15_Witness ==
    /\ _currentPhase = "red"
    /\ lastPushed.val = "green"
    /\ pc[CycleThread] = "cycle_send"
    /\ pc[Observed] = "received"
    /\ phaseRead[Reader] = "green"
    /\ pc[Reader] = "getCurrentPhase"

\* the cycle thread is past lines 91-98: the duration has been chosen
C16_Running == pc[CycleThread] \notin {"idle", "cycle_init"}

\* C16: the cycle timing rule, time in ms.  The duration is chosen once, in
\* [4000, 6000], and never changes; the test of line 108 goes on to the
\* toggle exactly when the elapsed time is at least the duration, and back
\* to the sleep otherwise; _currentPhase and the queue change only while the
\* elapsed time is at least the duration; a toggle, then one push, then the
\* reset of the timer follow each other in that order before the next test;
\* and a push comes no sooner than the duration after the push before it.
C16_CycleTiming ==
    /\ [](C16_Running => cycleDuration \in DurationMin..DurationMax)
    /\ [][C16_Running => cycleDuration' = cycleDuration]_vars
    /\ [][pc[CycleThread] = "cycle_measure" /\ pc'[CycleThread] /= "cycle_measure"
            => pc'[CycleThread] = (IF clock >= cycleDuration
                                     THEN "cycle_toggle" ELSE "cycle_sleep")]_vars
    /\ [][_currentPhase' /= _currentPhase \/ _queue' /= _queue
            => clock >= cycleDuration]_vars
    /\ [][_currentPhase' /= _currentPhase
            => unpublished = 0 /\ unpublished' = 1]_vars
    /\ [][lastPushed' /= lastPushed
            => unpublished = 1 /\ unpublished' = 0]_vars
    /\ [][clock' < clock
            => pc[CycleThread] = "sent" /\ unpublished = 0 /\ clock' = 0]_vars
    /\ [](pc[CycleThread] \in {"cycle_sleep", "cycle_measure"}
            => unpublished = 0 /\ (lastPushed /= NoMessage => sincePublish = clock))
    /\ [][lastPushed' /= lastPushed => sincePublish >= cycleDuration]_vars

\* with a duration of 6000 ms, green and red have been published and a test
\* at 4000 ms after the reset has changed nothing
C16_Witness ==
    /\ cycleDuration = DurationMax
    /\ pc[CycleThread] = "cycle_sleep"
    /\ clock >= DurationMin
    /\ clock < DurationMax
    /\ lastPushed.val = "red"
    /\ _queue = <<lastPushed>>
    /\ _currentPhase = "red"

\* C17: the cycle routine never ends and is never blocked for good.  Under
\* fair scheduling, once simulate() has been called, a red phase is always
\* followed by a green one and a green phase by a red one, whether or not
\* the waiter ever calls receive.
C17_CycleRunsForever ==
    /\ (pc[CycleThread] /= "idle" /\ _currentPhase = "red")
            ~> (_currentPhase = "green")
    /\ (pc[CycleThread] /= "idle" /\ _currentPhase = "green")
            ~> (_currentPhase = "red")

\* nobody has ever called receive: green and red have been pushed onto the
\* queue, red is still in it, and the third transition is being sent
C17_Witness ==
    /\ pc[Observed] = "idle"
    /\ callPhase = "none"
    /\ _queue = <<lastPushed>>
    /\ lastPushed.val = "red"
    /\ _currentPhase = "green"
    /\ pc[CycleThread] = "send_lock"

\* the positions at which a thread holds the mutex: lines 19-25 of receive
\* outside the blocked wait, lines 41-47 of send
C18_LockRegion ==
    {"receive_wait", "receive_return", "send_push", "send_notify", "send_return"}
C18_Holders == {t \in Threads : pc[t] \in C18_LockRegion}

\* C18: at most one thread is at a position where it holds the mutex, and
\* it is the thread recorded as the owner; so a thread in send's sleep, a
\* thread blocked in the condition wait and a thread outside send and
\* receive hold nothing.  The queue changes only in a step of the owner,
\* and a consumer gets a message into msg only in a step it takes as owner.
C18_MutexDiscipline ==
    /\ [](/\ Cardinality(C18_Holders) <= 1
          /\ C18_Holders = (IF _mutex = NoThread THEN {} ELSE {_mutex}))
    /\ [](\A t \in Threads :
              pc[t] \in {"send", "send_lock", "receive_blocked", "receive_woken"}
                  => _mutex /= t)
    /\ [][_queue' /= _queue =>
              /\ _mutex /= NoThread
              /\ pc[_mutex] \in {"receive_wait", "send_push"}
              /\ pc'[_mutex] /= pc[_mutex]
              /\ \A t \in Threads \ {_mutex} : pc'[t] = pc[t]
         ]_vars
    /\ [][\A t \in Consumers :
              (msg'[t] /= msg[t] /\ msg'[t] /= NoMessage) =>
                  _mutex = t /\ pc[t] = "receive_wait"
         ]_vars

\* the sender is in the sleep of its second send, one consumer is blocked in
\* the condition wait, the other has taken the first message and still
\* holds the mutex
C18_Witness ==
    /\ pc[Sender] = "send"
    /\ pushCount = 1
    /\ \E t \in Consumers : pc[t] = "receive_blocked" /\ t \in _condition
    /\ \E t \in Consumers : pc[t] = "receive_return" /\ _mutex = t

\* the positions of the cycle thread between its write of _currentPhase and
\* the return of the send that publishes it
C19_Window ==
    {"cycle_send", "send", "send_lock", "send_push", "send_notify", "send_return"}

\* C19: _currentPhase and the queue agree outside the toggle-and-send step.
\* Whenever the cycle thread is outside that step, the queue is empty or
\* holds the current phase, and every write of _currentPhase has been
\* followed by its push; never is more than one write unpublished; and each
\* push of the cycle thread comes after the write it publishes and carries
\* the phase written.
C19_PhaseQueueAgree ==
    /\ [](pc[CycleThread] \notin C19_Window =>
              /\ empty(_queue) \/ back(_queue).val = _currentPhase
              /\ unpublished = 0)
    /\ [](unpublished \in {0, 1})
    /\ [][lastPushed' /= lastPushed =>
              /\ unpublished = 1
              /\ unpublished' = 0
              /\ lastPushed'.val = _currentPhase
              /\ _queue' = <<lastPushed'>>
         ]_vars

\* one waiter has returned on green; the light has turned red since, red is
\* in the queue and the cycle thread is timing the next phase
C19_Witness ==
    /\ \E t \in Waiters : pc[t] = "returned"
    /\ pc[CycleThread] = "cycle_measure"
    /\ _currentPhase = "red"
    /\ _queue = <<lastPushed>>
    /\ lastPushed.val = "red"

\* the cycle thread is about to clear a green message out of the queue while
\* a waiter is inside waitForGreen and runnable, not blocked on the
\* condition variable
C20_GreenOverwritten ==
    /\ pc[CycleThread] = "send_push"
    /\ _queue /= <<>>
    /\ _queue[Len(_queue)].val = "green"
    /\ \E t \in Pair : pc[t] \notin {"idle", "receive_blocked", "returned"}

\* the cycle thread runs and both waiters have called waitForGreen()
C20_BothCalled ==
    /\ pc[CycleThread] /= "idle"
    /\ \A t \in Pair : pc[t] /= "idle"

\* once both calls have been made, each of them returns
C20_AllReturn == \A t \in Pair : C20_BothCalled ~> (pc[t] = "returned")

====
